---------------------------- MODULE Spec2Model ----------------------------
(***************************************************************************)
(* Model of the TDS Virtual TA question-answering service                  *)
(* (api/virtual_ta/unified.py and api/virtual_ta/views.py).                *)
(*                                                                         *)
(* Python str values are TLA+ strings handled character by character       *)
(* (Len, SubSeq and \o act on strings in TLC), so lower(), strip(),        *)
(* split(), "in" and the regular expressions are computed, not assumed.    *)
(***************************************************************************)
EXTENDS Integers, Sequences, FiniteSets, TLC

VARIABLES
    \* ---- process_tds_question / _generate_ai_response (unified.py) ----
    now,          \* time.time(), in whole seconds
    cache,        \* django cache entry "last_ai_request": [val, exp] or NoEntry
    apiKey,       \* settings.GEMINI_API_KEY is set
    req,          \* per worker: the request it is serving and where it stands
    passes,       \* history: the last two times a request reached the model call
    started,      \* number of requests begun
    answered,     \* the request answered last, with its response
    hist,         \* history: [storeFailed, lagged]
    \* ---- pure functions of unified.py applied to one input ----
    fn,           \* which function: "none", "context", "links", "clean"
    arg,          \* its input
    ret,          \* its result (Pending before the call)
    \* ---- virtual_ta_main / api_handler (views.py) ----
    viewLog       \* sequence of answered HTTP requests

mainVars == <<now, cache, apiKey, req, passes, started, answered, hist>>
pureVars == <<fn, arg, ret>>
viewVars == <<viewLog>>
vars == <<now, cache, apiKey, req, passes, started, answered, hist, fn, arg, ret, viewLog>>

(***************************************************************************)
(* Python str primitives                                                   *)
(***************************************************************************)
\* Optional[str]: None, or a str
None == [some |-> FALSE]
Some(s) == [some |-> TRUE, val |-> s]
\* the result of a call: not returned yet, or returned with this value
Pending == [done |-> FALSE]
Done(v) == [done |-> TRUE, val |-> v]

Ch(s, i) == SubSeq(s, i, i)

UpperLetters == "ABCDEFGHIJKLMNOPQRSTUVWXYZ"
LowerLetters == "abcdefghijklmnopqrstuvwxyz"
Digits == "0123456789"

\* c occurs in the string alphabet
InAlphabet(c, alphabet) == \E i \in 1..Len(alphabet) : Ch(alphabet, i) = c

IsSpace(c) == c \in {" ", "\n", "\t", "\r"}
IsDigit(c) == InAlphabet(c, Digits)
IsAlpha(c) == InAlphabet(c, UpperLetters) \/ InAlphabet(c, LowerLetters)

LowerChar(c) ==
    IF InAlphabet(c, UpperLetters)
    THEN Ch(LowerLetters, CHOOSE i \in 1..Len(UpperLetters) : Ch(UpperLetters, i) = c)
    ELSE c

UpperChar(c) ==
    IF InAlphabet(c, LowerLetters)
    THEN Ch(UpperLetters, CHOOSE i \in 1..Len(LowerLetters) : Ch(LowerLetters, i) = c)
    ELSE c

\* str.lower()
RECURSIVE Lower(_)
Lower(s) ==
    IF s = "" THEN "" ELSE LowerChar(Ch(s, 1)) \o Lower(SubSeq(s, 2, Len(s)))

\* needle in s
Contains(s, needle) ==
    \E i \in 1..(Len(s) - Len(needle) + 1) : SubSeq(s, i, i + Len(needle) - 1) = needle

\* s.find(needle, from): least index >= from at which needle starts, 0 if none
Find(s, needle, from) ==
    LET hits == {i \in from..(Len(s) - Len(needle) + 1) :
                    SubSeq(s, i, i + Len(needle) - 1) = needle}
    IN IF hits = {} THEN 0 ELSE CHOOSE i \in hits : \A j \in hits : i <= j

\* s[:n]
Prefix(s, n) == SubSeq(s, 1, IF n < Len(s) THEN n ELSE Len(s))

\* the first index from i on, stepping by step, that holds no whitespace
RECURSIVE SkipSpaces(_, _, _)
SkipSpaces(s, i, step) ==
    IF i >= 1 /\ i <= Len(s) /\ IsSpace(Ch(s, i)) THEN SkipSpaces(s, i + step, step) ELSE i

\* str.strip()
Strip(s) == SubSeq(s, SkipSpaces(s, 1, 1), SkipSpaces(s, Len(s), -1))

\* sep.join(parts)
RECURSIVE Join(_, _)
Join(parts, sep) ==
    IF parts = <<>> THEN ""
    ELSE IF Len(parts) = 1 THEN parts[1]
    ELSE parts[1] \o sep \o Join(Tail(parts), sep)

\* s.split(sep), sep non-empty: the pieces between the non-overlapping
\* occurrences of sep, found left to right
RECURSIVE Split(_, _)
Split(s, sep) ==
    LET at == Find(s, sep, 1)
    IN IF at = 0 THEN <<s>>
       ELSE <<SubSeq(s, 1, at - 1)>> \o Split(SubSeq(s, at + Len(sep), Len(s)), sep)

\* s.replace(old, new) for a one-character old
RECURSIVE ReplaceChar(_, _, _)
ReplaceChar(s, old, new) ==
    IF s = "" THEN ""
    ELSE (IF Ch(s, 1) = old THEN new ELSE Ch(s, 1))
         \o ReplaceChar(SubSeq(s, 2, Len(s)), old, new)

\* seq[:n]
Take(seq, n) == SubSeq(seq, 1, IF n < Len(seq) THEN n ELSE Len(seq))

\* any(word in text for word in words)
AnyIn(words, text) == \E i \in 1..Len(words) : Contains(text, words[i])

(***************************************************************************)
(* _get_course_context: the embedded knowledge base and its search         *)
(***************************************************************************)
course_data == <<
    [section |-> "python_setup",
     content |-> "Python setup for TDS: Install Python 3.8+, create virtual environment with 'python -m venv tds_env', activate with 'source tds_env/bin/activate' (Linux/Mac) or 'tds_env\\Scripts\\activate' (Windows), install packages with 'pip install -r requirements.txt'",
     keywords |-> <<"python", "setup", "install", "environment", "pip", "venv">>],
    [section |-> "assignments",
     content |-> "TDS assignment guidelines: Submit through designated platform, include proper documentation, test code thoroughly, follow naming conventions, use version control. For GA assignments, follow specific model requirements like gpt-3.5-turbo-0125.",
     keywords |-> <<"assignment", "submit", "homework", "ga", "deadline", "guidelines">>],
    [section |-> "git_version_control",
     content |-> "Git for TDS: Initialize with 'git init', add files with 'git add .', commit with 'git commit -m \"message\"', push to GitHub with 'git push origin main'. Use meaningful commit messages and branches.",
     keywords |-> <<"git", "version", "control", "github", "commit", "push", "branch">>],
    [section |-> "api_usage",
     content |-> "API usage in TDS: Use proper authentication, implement rate limiting, handle errors gracefully, cache responses when possible. For OpenAI API, use specified models like gpt-3.5-turbo-0125 as required by assignments.",
     keywords |-> <<"api", "openai", "gpt", "authentication", "rate", "limiting", "requests">>],
    [section |-> "debugging",
     content |-> "Debugging in TDS: Read error messages carefully, use print statements, check syntax and logic, search discourse for similar issues, share errors on forum for help from TAs and peers.",
     keywords |-> <<"error", "debug", "fix", "problem", "issue", "troubleshoot">>] >>

discourse_posts == <<
    [title |-> "GA5 Question 8 Clarification",
     url |-> "https://discourse.onlinedegree.iitm.ac.in/t/ga5-question-8-clarification/155939/4",
     content |-> "You must use gpt-3.5-turbo-0125, even if the AI Proxy only supports gpt-4o-mini. Use the OpenAI API directly for this question.",
     keywords |-> <<"gpt", "openai", "api", "assignment", "model">>],
    [title |-> "Python Environment Setup",
     url |-> "https://discourse.onlinedegree.iitm.ac.in/t/python-setup/156001",
     content |-> "Create virtual environment with 'python -m venv tds_env', activate it, install packages with pip. Use Python 3.8 or higher.",
     keywords |-> <<"python", "setup", "environment", "virtual", "pip">>],
    [title |-> "Assignment Submission Format",
     url |-> "https://discourse.onlinedegree.iitm.ac.in/t/assignment-format/155654",
     content |-> "Include main.py, requirements.txt, README.md with explanation. Use meaningful variable names and comments.",
     keywords |-> <<"assignment", "submission", "format", "requirements">>] >>

CourseSnippet(data) == "Course Material: " \o data.content

DiscourseSnippet(post) ==
    "Discourse: " \o post.title \o " - " \o post.content \o " (URL: " \o post.url \o ")"

GenericContext == "General TDS course information available."

\* sum(1 for keyword in keywords if keyword in question_lower), counted
\* token-wise instead: a keyword counts only when it is a whole word
RECURSIVE KeywordMatchesWholeWord(_, _)
KeywordMatchesWholeWord(keywords, question_lower) ==
    IF keywords = <<>> THEN 0
    ELSE (IF \E w \in 1..Len(Split(question_lower, " ")) :
                 Split(question_lower, " ")[w] = Head(keywords)
          THEN 1 ELSE 0)
         + KeywordMatchesWholeWord(Tail(keywords), question_lower)

\* sum(1 for keyword in keywords if keyword in question_lower)
RECURSIVE KeywordMatches(_, _)
KeywordMatches(keywords, question_lower) ==
    IF keywords = <<>> THEN 0
    ELSE (IF Contains(question_lower, Head(keywords)) THEN 1 ELSE 0)
         + KeywordMatches(Tail(keywords), question_lower)

\* the two for-loops: relevant_content after scanning entries[1..n]
RECURSIVE ScanCourse(_, _)
ScanCourse(n, question_lower) ==
    IF n = 0 THEN <<>>
    ELSE LET sofar == ScanCourse(n - 1, question_lower)
         IN IF KeywordMatches(course_data[n].keywords, question_lower) > 0
            THEN Append(sofar, CourseSnippet(course_data[n]))
            ELSE sofar

RECURSIVE ScanDiscourse(_, _, _)
ScanDiscourse(n, question_lower, relevant_content) ==
    IF n = 0 THEN relevant_content
    ELSE LET sofar == ScanDiscourse(n - 1, question_lower, relevant_content)
         IN IF KeywordMatches(discourse_posts[n].keywords, question_lower) > 0
            THEN Append(sofar, DiscourseSnippet(discourse_posts[n]))
            ELSE sofar

RelevantContent(question) ==
    LET question_lower == Lower(question)
    IN ScanDiscourse(Len(discourse_posts), question_lower,
                     ScanCourse(Len(course_data), question_lower))

MaxSnippets == 3

GetCourseContext(question) ==
    LET relevant_content == RelevantContent(question)
    IN IF relevant_content # <<>>
       THEN Join(Take(relevant_content, MaxSnippets), "\n\n")
       ELSE GenericContext

(***************************************************************************)
(* _extract_links                                                          *)
(***************************************************************************)
ForumTopicPrefix == "https://discourse.onlinedegree.iitm.ac.in/t/"
ForumHome == "https://discourse.onlinedegree.iitm.ac.in/"

\* least index k >= from with Stop(s[k]), or Len(s) + 1: where a greedy
\* character-class run that starts at from ends
RunEnd(s, from, Stop(_)) ==
    LET stops == {k \in from..Len(s) : Stop(Ch(s, k))}
    IN IF stops = {} THEN Len(s) + 1 ELSE CHOOSE k \in stops : \A j \in stops : k <= j

SlugStop(c) == c = "/" \/ c = ")" \/ IsSpace(c)
NotDigit(c) == ~IsDigit(c)
IsSlash(c) == c = "/"

\* r'https://discourse\.onlinedegree\.iitm\.ac\.in/t/[^/\s)]+/\d+(?:/\d+)?'
\* matched at index i: the index after the match, 0 when it does not match
UrlMatchEnd(s, i) ==
    LET slug == i + Len(ForumTopicPrefix)
        slugEnd == RunEnd(s, slug, SlugStop)
        idEnd == RunEnd(s, slugEnd + 1, NotDigit)
        postEnd == RunEnd(s, idEnd + 1, NotDigit)
    IN IF SubSeq(s, i, slug - 1) # ForumTopicPrefix THEN 0
       ELSE IF slugEnd = slug \/ slugEnd > Len(s) \/ Ch(s, slugEnd) # "/" THEN 0
       ELSE IF idEnd = slugEnd + 1 THEN 0
       ELSE IF idEnd <= Len(s) /\ Ch(s, idEnd) = "/" /\ postEnd > idEnd + 1 THEN postEnd
       ELSE idEnd

\* re.findall(pattern, context[i:]): non-overlapping matches, left to right
RECURSIVE FindAllUrls(_, _)
FindAllUrls(context, i) ==
    LET at == Find(context, ForumTopicPrefix, i)
        end == UrlMatchEnd(context, at)
    IN IF at = 0 THEN <<>>
       ELSE IF end = 0 THEN FindAllUrls(context, at + 1)
       ELSE <<SubSeq(context, at, end - 1)>> \o FindAllUrls(context, end)

\* str.title(): a letter is upper-cased after a non-letter, lower-cased after a letter
RECURSIVE TitleFrom(_, _)
TitleFrom(s, afterLetter) ==
    IF s = "" THEN ""
    ELSE LET c == Ch(s, 1)
         IN (IF ~IsAlpha(c) THEN c ELSE IF afterLetter THEN LowerChar(c) ELSE UpperChar(c))
            \o TitleFrom(SubSeq(s, 2, Len(s)), IsAlpha(c))

Title(s) == TitleFrom(s, FALSE)

\* re.search(r'/t/([^/]+)/', url).group(1), None when there is no match
RECURSIVE TopicSlug(_, _)
TopicSlug(url, from) ==
    LET at == Find(url, "/t/", from)
        slugEnd == RunEnd(url, at + 3, IsSlash)
    IN IF at = 0 THEN None
       ELSE IF slugEnd > at + 3 /\ slugEnd <= Len(url)
            THEN Some(SubSeq(url, at + 3, slugEnd - 1))
       ELSE TopicSlug(url, at + 1)

\* the body of the for-loop, for the i-th (0-based) url
LinkFor(url, i) ==
    LET topic == TopicSlug(url, 1)
    IN IF topic # None
       THEN [url |-> url, text |-> Title(ReplaceChar(topic.val, "-", " ")) \o " Discussion"]
       ELSE [url |-> url, text |-> "Related Discussion " \o ToString(i + 1)]

DefaultLink(question) ==
    LET question_lower == Lower(question)
    IN [url |-> ForumHome,
        text |-> IF AnyIn(<<"assignment", "homework">>, question_lower)
                 THEN "TDS Assignment Help"
                 ELSE IF AnyIn(<<"python", "code">>, question_lower)
                 THEN "TDS Programming Help"
                 ELSE "TDS Course Forum"]

\* list(set(urls)): each distinct url once, in the iteration order of a set of
\* str, which depends on the per-process string hash seed: any order
SetOrders(urls) ==
    LET distinct == {urls[k] : k \in 1..Len(urls)}
        n == Cardinality(distinct)
    IN {o \in [1..n -> distinct] : \A a, b \in 1..n : a # b => o[a] # o[b]}

MaxLinks == 2

\* _extract_links without its "if not links" block
LinksFromNoDefault(order, question) ==
    LET kept == Take(order, MaxLinks)
    IN [k \in 1..Len(kept) |-> LinkFor(kept[k], k - 1)]

\* _extract_links once list(set(urls)) has produced `order`
LinksFrom(order, question) ==
    LET kept == Take(order, MaxLinks)
        links == [k \in 1..Len(kept) |-> LinkFor(kept[k], k - 1)]
    IN IF links # <<>> THEN links ELSE <<DefaultLink(question)>>

\* every value _extract_links(context, question) can return
ExtractLinks(context, question) ==
    {LinksFrom(order, question) : order \in SetOrders(FindAllUrls(context, 1))}

(***************************************************************************)
(* _clean_text                                                             *)
(***************************************************************************)
UnableMessage == "Unable to generate a proper response."
CleanThreshold == 1200
CleanCap == 1000

\* re.sub(r'\s+', ' ', s): by halves, a run of whitespace across the cut
\* collapsing to one space
RECURSIVE CollapseSpaces(_)
CollapseSpaces(s) ==
    IF Len(s) = 0 THEN ""
    ELSE IF Len(s) = 1 THEN (IF IsSpace(s) THEN " " ELSE s)
    ELSE LET mid == Len(s) \div 2
             left == CollapseSpaces(SubSeq(s, 1, mid))
             right == CollapseSpaces(SubSeq(s, mid + 1, Len(s)))
         IN IF Ch(left, Len(left)) = " " /\ Ch(right, 1) = " "
            THEN left \o SubSeq(right, 2, Len(right))
            ELSE left \o right

\* the for-loop over sentences[k..]: truncated when it breaks or runs out
RECURSIVE Truncate(_, _, _)
Truncate(sentences, k, truncated) ==
    IF k > Len(sentences) THEN truncated
    ELSE IF Len(truncated \o sentences[k]) > CleanCap THEN truncated
    ELSE Truncate(sentences, k + 1, truncated \o sentences[k] \o ". ")

CleanText(text) ==
    IF text = "" THEN UnableMessage
    ELSE LET cleaned == CollapseSpaces(Strip(text))
             limited == IF Len(cleaned) > CleanThreshold
                        THEN Strip(Truncate(Split(cleaned, ". "), 1, ""))
                        ELSE cleaned
         IN IF limited # "" THEN limited ELSE UnableMessage

(***************************************************************************)
(* _intelligent_fallback_answer, _emergency_fallback, _format_final_response*)
(***************************************************************************)
\* context_info: the first line after the first "Course Material:", cut to 200
ContextInfo(context) ==
    IF context # "" /\ Contains(context, "Course Material:")
    THEN LET context_parts == Split(context, "Course Material:")
         IN IF Len(context_parts) > 1
            THEN Prefix(Split(context_parts[2], "\n")[1], 200) \o ". "
            ELSE ""
    ELSE ""

IntelligentFallbackAnswer(question, context) ==
    LET question_lower == Lower(question)
        context_info == ContextInfo(context)
    IN IF AnyIn(<<"gpt", "openai", "api", "model">>, question_lower)
       THEN context_info \o "For TDS AI assignments: Use the specific model mentioned (like gpt-3.5-turbo-0125) through OpenAI API directly, even if proxies support different models."
       ELSE IF AnyIn(<<"python", "setup", "install", "environment">>, question_lower)
       THEN context_info \o "For Python in TDS: Install Python 3.8+, create virtual environment with 'python -m venv tds_env', activate it, then install packages with 'pip install -r requirements.txt'."
       ELSE IF AnyIn(<<"assignment", "submit", "homework", "ga">>, question_lower)
       THEN context_info \o "For TDS assignments: Follow submission format, include documentation and comments, test thoroughly, and check discourse for specific requirements."
       ELSE IF AnyIn(<<"git", "version", "control">>, question_lower)
       THEN context_info \o "For Git in TDS: 'git init', 'git add .', 'git commit -m \"message\"', 'git push origin main'. Use meaningful commit messages."
       ELSE context_info \o "For detailed help with your TDS question, please post on the discourse forum where TAs and students can provide comprehensive assistance."

EmergencyFallback(question) ==
    [answer |-> "I'm currently experiencing issues. Please post your TDS question on the discourse forum where TAs and fellow students can help.",
     links |-> <<[url |-> ForumHome, text |-> "TDS Course Forum"]>>]

MinAiLength == 10

\* the answer _format_final_response picks
FinalAnswer(ai_response, question, context) ==
    IF ai_response.some /\ ai_response.val # "" /\ Len(Strip(ai_response.val)) > MinAiLength
    THEN CleanText(ai_response.val)
    ELSE IntelligentFallbackAnswer(question, context)

\* every value _format_final_response can return; json.dumps of a dict of str
\* and lists of dicts of str succeeds, so the response itself is returned
FormatFinalResponse(ai_response, question, context) ==
    {[answer |-> FinalAnswer(ai_response, question, context), links |-> links] :
        links \in ExtractLinks(context, question)}

(***************************************************************************)
(* _process_image.  A payload is [b64, head, size]: whether base64.b64decode *)
(* accepts it, and the decoded data's leading bytes and length.            *)
(***************************************************************************)
ImageLimit == 10 * 1024 * 1024

StartsWith(bytes, magic) == Len(bytes) >= Len(magic) /\ SubSeq(bytes, 1, Len(magic)) = magic

HasWebp(bytes) ==
    \E i \in 1..(Len(Take(bytes, 12)) - 3) : SubSeq(bytes, i, i + 3) = <<87, 69, 66, 80>>

ImageFormat(head) ==
    IF StartsWith(head, <<255, 216, 255>>) THEN "JPEG"
    ELSE IF StartsWith(head, <<137, 80, 78, 71>>) THEN "PNG"
    ELSE IF StartsWith(head, <<82, 73, 70, 70>>) /\ HasWebp(head) THEN "WEBP"
    ELSE "Unknown"

ProcessImage(image) ==
    IF image.b64 = "empty" THEN ""
    ELSE IF image.b64 = "invalid" THEN "Image provided but could not be processed."
    ELSE IF image.size > ImageLimit THEN "Image too large (max 10MB)."
    ELSE "Image provided (" \o ImageFormat(image.head) \o ", " \o ToString(image.size)
         \o " bytes). Screenshot or diagram related to TDS question."

(***************************************************************************)
(* _generate_ai_response                                                   *)
(***************************************************************************)
MinInterval == 5
CacheTimeout == 60
FallbackDelay == 2
PromptContext == 500

\* cache.get("last_ai_request", 0) at time t
CacheGet(entry, t) == IF entry.set /\ t < entry.exp THEN entry.val ELSE 0

NoEntry == [set |-> FALSE, val |-> 0, exp |-> 0]

\* the argument of time.sleep at line 147; 0 when the branch is not taken
ThrottleWaitShort(current_time, last_request) ==
    IF current_time - last_request < MinInterval
    THEN MinInterval - (current_time - last_request) - 1
    ELSE 0

ThrottleWait(current_time, last_request) ==
    IF current_time - last_request < MinInterval
    THEN MinInterval - (current_time - last_request)
    ELSE 0

BuildPrompt(question, context, image_context) ==
    "You are a TDS course Teaching Assistant at IIT Madras.\n\nContext: "
    \o Prefix(context, PromptContext) \o "\n" \o image_context
    \o "\n\nStudent Question: " \o question
    \o "\n\nProvide a helpful, specific answer for this TDS student. Keep it concise but informative."

Raised == [raised |-> TRUE]

\* what generate_content did: returned a response with this text, or raised
\* an exception with this message
Returned(text) == [kind |-> "text", text |-> text]
Raises(msg) == [kind |-> "raise", text |-> msg]

\* lines 177-187 with the except clause missing: the error propagates
AiResponsePropagating(outcome) ==
    IF outcome.kind = "raise" THEN Raised
    ELSE IF outcome.text # "" THEN Some(Strip(outcome.text))
    ELSE None

\* lines 177-187: the value _generate_ai_response returns after the call
AiResponse(outcome) ==
    IF outcome.kind = "text" /\ outcome.text # "" THEN Some(Strip(outcome.text)) ELSE None

\* the quota warning of lines 184-185
QuotaWarning(outcome) ==
    outcome.kind = "raise"
    /\ (Contains(outcome.text, "429") \/ Contains(Lower(outcome.text), "quota"))

\* process_tds_question's try/except around the stages: their result, or the
\* emergency fallback when a stage raised
ProcessResult(ai_response, question, context) ==
    IF ai_response = Raised THEN {EmergencyFallback(question)}
    ELSE FormatFinalResponse(ai_response, question, context)

(***************************************************************************)
(* The pipeline as a state machine: process_tds_question served by         *)
(* workers that share the clock, the cache and the settings.               *)
(***************************************************************************)
Workers == {1, 2}
Epoch == 10           \* time.time() when the model starts
Earlier == 3          \* seconds before Epoch at which an earlier request began
Horizon == 6          \* seconds the clock may advance, one worker
MaxRequests == 3      \* requests begun, one worker
RaceHorizon == 3      \* seconds the clock may advance, two workers
MaxConcurrent == 2    \* requests begun, two workers
AnswerHorizon == 2    \* seconds the clock may advance, requests of every kind
MaxAnswers == 1       \* requests begun, requests of every kind

Questions == {"How do I set up Python for TDS?", "hello"}

NoImage == [b64 |-> "empty", head |-> <<>>, size |-> 0]
Images == {NoImage,
           [b64 |-> "invalid", head |-> <<>>, size |-> 0],
           [b64 |-> "valid", head |-> <<255, 216, 255, 224>>, size |-> 4]}

ModelOutcomes ==
    {Raises("429 Resource has been exhausted (e.g. check quota)."),
     Raises("Connection reset"),
     Returned(""),
     Returned(" ok \n"),
     Returned("Create a venv first.  Then run pip install.\n")}

IdleReq ==
    [pc |-> "idle", question |-> "", context |-> "", image_context |-> "",
     current_time |-> 0, last_request |-> 0, didRead |-> FALSE, wake |-> 0,
     blocked |-> FALSE, racedWith |-> {}, passedAt |-> 0, prompt |-> ""]

NoAnswer ==
    [question |-> "", context |-> "", called |-> FALSE, blocked |-> FALSE,
     outcome |-> None, ai_response |-> None, warned |-> FALSE, result |-> None]

\* what a request that began Earlier seconds before Epoch left in the cache
EarlierEntry ==
    [set |-> TRUE, val |-> Epoch - Earlier, exp |-> Epoch - Earlier + CacheTimeout]

\* has read the stored timestamp and not yet written it
ReadNotWritten(w) == req[w].pc \in {"sleep", "set"}

MainInit(entry) ==
    /\ now = Epoch
    /\ cache = entry
    /\ apiKey \in BOOLEAN
    /\ req = [w \in Workers |-> IdleReq]
    /\ passes = <<>>
    /\ started = 0
    /\ answered = NoAnswer
    /\ hist = [storeFailed |-> FALSE, lagged |-> FALSE]

\* lines 24-27 and 140: context, image description, current_time = time.time()
Begin(w, question, image, limit) ==
    /\ req[w].pc = "idle"
    /\ started < limit
    /\ started' = started + 1
    /\ req' = [req EXCEPT ![w] =
                 [IdleReq EXCEPT !.pc = "throttle",
                                 !.question = question,
                                 !.context = GetCourseContext(question),
                                 !.image_context = ProcessImage(image),
                                 !.current_time = now]]
    /\ UNCHANGED <<now, cache, apiKey, passes, answered, hist, pureVars, viewVars>>

\* lines 145-147, the store answering: read the timestamp, sleep if too recent
ThrottleRead(w) ==
    LET last_request == CacheGet(cache, now)
        wait == ThrottleWait(req[w].current_time, last_request)
        racers == {v \in Workers \ {w} : ReadNotWritten(v)}
    IN /\ req[w].pc = "throttle"
       /\ req' = [v \in Workers |->
                    IF v = w
                    THEN [req[w] EXCEPT !.last_request = last_request, !.didRead = TRUE,
                                        !.pc = IF wait > 0 THEN "sleep" ELSE "set",
                                        !.blocked = wait > 0,
                                        !.wake = now + wait,
                                        !.racedWith = racers]
                    ELSE IF v \in racers
                    THEN [req[v] EXCEPT !.racedWith = @ \cup {w}]
                    ELSE req[v]]
       /\ UNCHANGED <<now, cache, apiKey, passes, started, answered, hist, pureVars, viewVars>>

\* lines 145/148 raising (store unreachable): the bare except, time.sleep(2)
StoreFails(w) ==
    /\ req[w].pc \in {"throttle", "set"}
    /\ req' = [req EXCEPT ![w].pc = "delay", ![w].blocked = TRUE,
                          ![w].wake = now + FallbackDelay]
    /\ hist' = [hist EXCEPT !.storeFailed = TRUE]
    /\ UNCHANGED <<now, cache, apiKey, passes, started, answered, pureVars, viewVars>>

\* time.sleep(...) of line 147 returns
WakeUp(w) ==
    /\ req[w].pc = "sleep"
    /\ now >= req[w].wake
    /\ req' = [req EXCEPT ![w].pc = "set", ![w].wake = 0]
    /\ UNCHANGED <<now, cache, apiKey, passes, started, answered, hist, pureVars, viewVars>>

\* line 148: cache.set(cache_key, current_time, 60)
ThrottleWrite(w) ==
    /\ req[w].pc = "set"
    /\ cache' = [set |-> TRUE, val |-> req[w].current_time, exp |-> now + CacheTimeout]
    /\ req' = [req EXCEPT ![w].pc = "gemini"]
    /\ UNCHANGED <<now, apiKey, passes, started, answered, hist, pureVars, viewVars>>

\* time.sleep(2) of line 150 returns
DelayOver(w) ==
    /\ req[w].pc = "delay"
    /\ now >= req[w].wake
    /\ req' = [req EXCEPT ![w].pc = "gemini", ![w].wake = 0]
    /\ UNCHANGED <<now, cache, apiKey, passes, started, answered, hist, pureVars, viewVars>>

\* the worker's request is over: nobody is racing with it any more
Release(w) ==
    [v \in Workers |->
        IF v = w THEN IdleReq ELSE [req[v] EXCEPT !.racedWith = @ \ {w}]]

\* lines 154-155 and 30-33: no credential, return None, compose the response
NoCredential(w) ==
    /\ req[w].pc = "gemini"
    /\ ~apiKey
    /\ \E result \in ProcessResult(None, req[w].question, req[w].context) :
          answered' = [question |-> req[w].question, context |-> req[w].context,
                       called |-> FALSE, blocked |-> req[w].blocked,
                       outcome |-> None, ai_response |-> None, warned |-> FALSE,
                       result |-> result]
    /\ req' = Release(w)
    /\ UNCHANGED <<now, cache, apiKey, passes, started, hist, pureVars, viewVars>>

\* lines 157-169: build the prompt and call generate_content
CallModel(w) ==
    /\ req[w].pc = "gemini"
    /\ apiKey
    /\ req' = [req EXCEPT ![w].pc = "calling", ![w].passedAt = now,
                          ![w].prompt = BuildPrompt(req[w].question, req[w].context,
                                                    req[w].image_context)]
    /\ passes' = IF passes = <<>> THEN <<now>> ELSE <<passes[Len(passes)], now>>
    /\ UNCHANGED <<now, cache, apiKey, started, answered, hist, pureVars, viewVars>>

\* lines 177-187 and 30-37: the call returns or raises; compose the response
ModelReturns(w, outcome) ==
    /\ req[w].pc = "calling"
    /\ LET ai_response == AiResponse(outcome)
       IN \E result \in ProcessResult(ai_response, req[w].question, req[w].context) :
             answered' = [question |-> req[w].question, context |-> req[w].context,
                          called |-> TRUE, blocked |-> req[w].blocked,
                          outcome |-> outcome, ai_response |-> ai_response,
                          warned |-> QuotaWarning(outcome), result |-> result]
    /\ req' = Release(w)
    /\ UNCHANGED <<now, cache, apiKey, passes, started, hist, pureVars, viewVars>>

\* one second passes; hist.lagged notes that it passed while a request was
\* between two statements, not asleep and not waiting for the model
Tick(horizon) ==
    /\ now < Epoch + horizon
    /\ now' = now + 1
    /\ hist' = [hist EXCEPT !.lagged =
                   @ \/ \E w \in Workers : req[w].pc \in {"throttle", "set", "gemini"}]
    /\ UNCHANGED <<cache, apiKey, req, passes, started, answered, pureVars, viewVars>>

PureIdle == fn = "none" /\ arg = "" /\ ret = Pending
ViewIdle == viewLog = <<>>

\* the service starts with the cache as an earlier run may have left it
Init == (\E entry \in {NoEntry, EarlierEntry} : MainInit(entry)) /\ PureIdle /\ ViewIdle

\* the service starts with an empty cache
InitFresh == MainInit(NoEntry) /\ PureIdle /\ ViewIdle

\* a step of a request, for requests drawn from the given sets
RequestStep(workers, questions, images, outcomes, limit) ==
    \/ \E w \in workers, question \in questions, image \in images :
          Begin(w, question, image, limit)
    \/ \E w \in workers : ThrottleRead(w)
    \/ \E w \in workers : StoreFails(w)
    \/ \E w \in workers : WakeUp(w)
    \/ \E w \in workers : ThrottleWrite(w)
    \/ \E w \in workers : DelayOver(w)
    \/ \E w \in workers : NoCredential(w)
    \/ \E w \in workers : CallModel(w)
    \/ \E w \in workers, outcome \in outcomes : ModelReturns(w, outcome)

TheQuestion == "hello"
TheOutcome == Raises("Connection reset")

\* two workers serving concurrently
Next ==
    \/ RequestStep(Workers, {TheQuestion}, {NoImage}, {TheOutcome}, MaxConcurrent)
    \/ Tick(RaceHorizon)

\* one worker serving request after request
NextSolo ==
    \/ RequestStep({1}, {TheQuestion}, {NoImage}, {TheOutcome}, MaxRequests)
    \/ Tick(Horizon)

\* one worker serving requests of every kind, with every outcome of the model
NextAnswers ==
    \/ RequestStep({1}, Questions, Images, ModelOutcomes, MaxAnswers)
    \/ Tick(AnswerHorizon)

Spec == Init /\ [][Next]_vars
SpecSolo == InitFresh /\ [][NextSolo]_vars
SpecAnswers == Init /\ [][NextAnswers]_vars

(***************************************************************************)
(* The pure functions, each applied to one input drawn from a bounded set  *)
(***************************************************************************)
MaxWords == 3
MaxPieces == 3
MaxParts == 3

\* the pipeline at rest
MainQuiet == MainInit(NoEntry) /\ apiKey = FALSE

\* the strings made of 1..n members of pieces, sep between them
RECURSIVE Phrases(_, _, _)
Phrases(pieces, sep, n) ==
    IF n = 1 THEN pieces
    ELSE LET shorter == Phrases(pieces, sep, n - 1)
         IN shorter \cup {p \o sep \o q : p \in shorter, q \in pieces}

\* c repeated n times
RECURSIVE Rep(_, _)
Rep(c, n) ==
    IF n = 0 THEN ""
    ELSE IF n % 2 = 0 THEN LET half == Rep(c, n \div 2) IN half \o half
    ELSE c \o Rep(c, n - 1)

QuestionWords ==
    {"Python", "pip", "GitHub", "rapid", "Assignment", "model", "virtual", "format", "hello"}

ContextPieces ==
    {"see the forum",
     "(URL: " \o discourse_posts[1].url \o ")",
     discourse_posts[2].url \o ".",
     discourse_posts[3].url \o "/",
     ForumTopicPrefix \o "no-topic-id",
     "https://example.org/t/other-site/12"}

TextParts ==
    {Rep("a", 400) \o ". ",
     Rep("b", 598) \o ". ",
     Rep("c", 600) \o ".  ",
     Rep("d", 1000) \o ". ",
     Rep("e", 1300) \o " ",
     "\n Short one. "}

InitContext ==
    /\ MainQuiet /\ ViewIdle
    /\ fn = "context" /\ ret = Pending
    /\ arg \in Phrases(QuestionWords, " ", MaxWords)

InitLinks ==
    /\ MainQuiet /\ ViewIdle
    /\ fn = "links" /\ ret = Pending
    /\ arg \in [context : Phrases(ContextPieces, " ", MaxPieces),
                question : {"hello", "my homework"}]

InitClean ==
    /\ MainQuiet /\ ViewIdle
    /\ fn = "clean" /\ ret = Pending
    /\ arg \in Phrases(TextParts, "", MaxParts)

CallGetCourseContext ==
    /\ fn = "context" /\ ~ret.done
    /\ ret' = Done(GetCourseContext(arg))
    /\ UNCHANGED <<fn, arg, mainVars, viewVars>>

CallExtractLinks ==
    /\ fn = "links" /\ ~ret.done
    /\ \E links \in ExtractLinks(arg.context, arg.question) : ret' = Done(links)
    /\ UNCHANGED <<fn, arg, mainVars, viewVars>>

CallCleanText ==
    /\ fn = "clean" /\ ~ret.done
    /\ ret' = Done(CleanText(arg))
    /\ UNCHANGED <<fn, arg, mainVars, viewVars>>

SpecContext == InitContext /\ [][CallGetCourseContext]_vars
SpecLinks == InitLinks /\ [][CallExtractLinks]_vars
SpecClean == InitClean /\ [][CallCleanText]_vars

(***************************************************************************)
(* views.py: api_handler and virtual_ta_main                               *)
(***************************************************************************)
MaxHttpRequests == 2

\* a JSON value of the request body's "question" or "image" member
JAbsent == [json |-> "absent"]
JNull == [json |-> "null"]
JString(s) == [json |-> "string", val |-> s]

\* request.body: not JSON at all, a JSON array, or a JSON object
NotJson == [parses |-> FALSE, object |-> FALSE, question |-> JAbsent, image |-> JAbsent]
JsonArray == [parses |-> TRUE, object |-> FALSE, question |-> JAbsent, image |-> JAbsent]
JsonObject(question, image) ==
    [parses |-> TRUE, object |-> TRUE, question |-> question, image |-> image]

QuestionValues ==
    {JAbsent, JNull, JString(""), JString("   "), JString(" \n\t"),
     JString("  What is GA5? "), JString("hello")}

Bodies ==
    {NotJson, JsonArray}
    \cup {JsonObject(q, i) : q \in QuestionValues, i \in {JAbsent, JString("aGVsbG8=")}}

AskResponse ==
    [status |-> 400,
     answer |-> "Please provide a question for the TDS Virtual TA.",
     links |-> <<[url |-> ForumHome, text |-> "TDS Course Forum"]>>]

ErrorResponse ==
    [status |-> 500,
     answer |-> "An error occurred. Please try again.",
     links |-> <<[url |-> ForumHome, text |-> "TDS Forum"]>>]

\* data.get('question', '') with the .strip() left out
QuestionOfUnstripped(body) ==
    IF ~body.parses \/ ~body.object \/ body.question = JNull THEN Raised
    ELSE IF body.question = JAbsent THEN Some("")
    ELSE Some(body.question.val)

\* lines 41-42: json.loads(request.body), data.get('question', '').strip();
\* Raised when one of them raises (no JSON, no dict, no str)
QuestionOf(body) ==
    IF ~body.parses \/ ~body.object \/ body.question = JNull THEN Raised
    ELSE IF body.question = JAbsent THEN Some("")
    ELSE Some(Strip(body.question.val))

\* DataScraper().search_relevant_content and MultiAIService().generate_answer
\* (ai_service.py, data_scraper.py): the answer they hand back, or Raised
ServiceOutcomes(question) ==
    {Raised} \cup ProcessResult(None, question, GetCourseContext(question))

\* virtual_ta_main, the services ending in `outcome`: the response, and
\* whether the retriever and the generator were invoked
VirtualTaMain(body, outcome) ==
    LET question == QuestionOf(body)
    IN IF question = Raised
       THEN [response |-> ErrorResponse, retrieved |-> FALSE, generated |-> FALSE]
       ELSE IF question.val = ""
       THEN [response |-> AskResponse, retrieved |-> FALSE, generated |-> FALSE]
       ELSE IF outcome = Raised
       THEN [response |-> ErrorResponse, retrieved |-> TRUE, generated |-> TRUE]
       ELSE [response |-> [status |-> 200, answer |-> outcome.answer, links |-> outcome.links],
             retrieved |-> TRUE, generated |-> TRUE]

\* what generate_answer would be asked, had the handler got that far
AskedQuestion(body) ==
    IF body.parses /\ body.object /\ body.question.json = "string"
    THEN body.question.val ELSE ""

\* api_handler, POST
Post(body) ==
    /\ Len(viewLog) < MaxHttpRequests
    /\ \E outcome \in ServiceOutcomes(AskedQuestion(body)) :
          viewLog' = Append(viewLog,
                            [method |-> "POST", path |-> "/api/", body |-> body]
                            @@ VirtualTaMain(body, outcome))
    /\ UNCHANGED <<mainVars, pureVars>>

InfoResponse(path) ==
    IF Len(path) >= 8 /\ SubSeq(path, Len(path) - 7, Len(path)) = "/health/"
    THEN [status |-> 200, answer |-> "healthy", links |-> <<>>]
    ELSE IF Len(path) >= 6 /\ SubSeq(path, Len(path) - 5, Len(path)) = "/info/"
    THEN [status |-> 200, answer |-> "TDS Virtual TA", links |-> <<>>]
    ELSE [status |-> 200, answer |-> "TDS Virtual TA API", links |-> <<>>]

\* api_handler, GET
Get(path) ==
    /\ Len(viewLog) < MaxHttpRequests
    /\ viewLog' = Append(viewLog,
                         [method |-> "GET", path |-> path, body |-> NotJson,
                          response |-> InfoResponse(path),
                          retrieved |-> FALSE, generated |-> FALSE])
    /\ UNCHANGED <<mainVars, pureVars>>

InitView == MainQuiet /\ PureIdle /\ ViewIdle

NextView ==
    \/ \E body \in Bodies : Post(body)
    \/ \E path \in {"/api/", "/api/health/", "/api/info/"} : Get(path)

SpecView == InitView /\ [][NextView]_vars

(***************************************************************************)
(* Properties of the pipeline                                              *)
(***************************************************************************)
Answered == answered # NoAnswer

\* C1: whatever the question, the image and the outcomes of the stages (store
\* reachable or not, credential or none, the model returning text, nothing or
\* raising, the image decoding or not), process_tds_question returns a
\* response whose answer is a non-empty string and whose links hold at least
\* one link; on the way no sleep lasts longer than MinInterval seconds.
C1_AlwaysAValidAnswer ==
    /\ Answered =>
          /\ answered.result # Raised
          /\ answered.result.answer # ""
          /\ Len(answered.result.links) >= 1
    /\ \A w \in Workers :
          req[w].pc \in {"sleep", "delay"} => req[w].wake - now <= MinInterval

C1_Witness ==
    /\ Answered
    /\ hist.storeFailed
    /\ answered.called
    /\ answered.outcome.kind = "raise"
    /\ answered.question = "hello"
    /\ Len(answered.result.links) = 1

\* C4: when the model call raises (a quota error or any other) or returns
\* empty text, _generate_ai_response returns None and the response carries the
\* rule-based answer for the question, not the emergency fallback.
C4_ModelFailureGivesRuleBasedAnswer ==
    (Answered /\ answered.called
     /\ (answered.outcome.kind = "raise" \/ answered.outcome.text = "")) =>
        /\ answered.ai_response = None
        /\ answered.result # EmergencyFallback(answered.question)
        /\ answered.result.answer =
               IntelligentFallbackAnswer(answered.question, answered.context)

C4_Witness ==
    /\ Answered
    /\ answered.called
    /\ answered.outcome.kind = "raise"
    /\ answered.warned
    /\ Contains(answered.result.answer, "venv")

\* C5: with requests served one after another (one worker), the store
\* reachable and its entry not expired (the clock stays within CacheTimeout of
\* every write), two consecutive requests reach the model call at least
\* MinInterval seconds apart.  Stated for the runs in which, besides, no
\* statement of the throttle takes a measurable time (~hist.lagged).
C5_SequentialPassesFiveApart ==
    (~hist.storeFailed /\ ~hist.lagged /\ Len(passes) = 2
     /\ (cache.set => now < cache.exp)) =>
        passes[2] - passes[1] >= MinInterval

\* C6: without a credential the request returns None at once: the model is
\* not called and the request has not been held by the throttle sleep or by
\* the fallback delay.
C6_NoCredentialReturnsAtOnce ==
    (Answered /\ ~apiKey) => (~answered.called /\ ~answered.blocked)

\* C10: the throttle holds a request only against the timestamp that request
\* read (it reaches the model call no sooner than MinInterval after it), never
\* against the other requests: two requests that both read the timestamp
\* before either wrote it both go on and reach the model call less than
\* MinInterval apart (C10_Witness).
C10_HeldOnlyAgainstTimestampRead ==
    \A w \in Workers :
        (req[w].pc = "calling" /\ req[w].didRead) =>
            req[w].passedAt >= req[w].last_request + MinInterval

C10_Witness ==
    /\ req[1].pc = "calling" /\ req[2].pc = "calling"
    /\ 2 \in req[1].racedWith /\ 1 \in req[2].racedWith
    /\ req[1].last_request = req[2].last_request
    /\ req[1].last_request = EarlierEntry.val
    /\ req[1].blocked /\ req[2].blocked
    /\ req[1].passedAt - req[2].passedAt < MinInterval
    /\ req[2].passedAt - req[1].passedAt < MinInterval

(***************************************************************************)
(* Properties of the pure functions                                        *)
(***************************************************************************)
\* the n-th smallest member of a set of numbers
Nth(set, n) == CHOOSE i \in set : Cardinality({j \in set : j < i}) = n - 1

\* the knowledge entries in declaration order: the course topics, then the posts
KnowledgeEntries ==
    [i \in 1..(Len(course_data) + Len(discourse_posts)) |->
        IF i <= Len(course_data)
        THEN [keywords |-> course_data[i].keywords, snippet |-> CourseSnippet(course_data[i])]
        ELSE [keywords |-> discourse_posts[i - Len(course_data)].keywords,
              snippet |-> DiscourseSnippet(discourse_posts[i - Len(course_data)])]]

\* the entries with a keyword that is a substring of the lower-cased question
Matching(question) ==
    {i \in DOMAIN KnowledgeEntries :
        \E k \in 1..Len(KnowledgeEntries[i].keywords) :
            Contains(Lower(question), KnowledgeEntries[i].keywords[k])}

\* C7: _get_course_context returns the snippets of exactly the entries that
\* have a keyword occurring as a substring of the lower-cased question, in
\* declaration order, cut to the first three whatever the number of keywords
\* each matched; the generic placeholder when no entry matches.
C7_ContextIsFirstThreeMatches ==
    (fn = "context" /\ ret.done) =>
        LET matching == Matching(arg)
            first == {i \in matching : Cardinality({j \in matching : j < i}) < 3}
            snippets == Split(ret.val, "\n\n")
        IN IF matching = {} THEN ret.val = GenericContext
           ELSE /\ Len(snippets) = Cardinality(first)
                /\ \A n \in 1..Len(snippets) :
                      snippets[n] = KnowledgeEntries[Nth(first, n)].snippet

\* more than three entries match, one of them (api_usage, by "api" inside
\* "rapid") only through a substring of a word, and it is cut off
C7_Witness ==
    /\ fn = "context" /\ ret.done
    /\ Cardinality(Matching(arg)) > 3
    /\ 4 \in Matching(arg)
    /\ ~Contains(Lower(arg), " api") /\ Contains(Lower(arg), "rapid")
    /\ Len(Split(ret.val, "\n\n")) = 3

\* the distinct urls in the order of their first occurrence
FirstSeen(urls) ==
    LET firsts == {i \in 1..Len(urls) : \A j \in 1..(i - 1) : urls[j] # urls[i]}
    IN [n \in 1..Cardinality(firsts) |-> urls[Nth(firsts, n)]]

\* C8: for a context with at least one forum topic url, _extract_links
\* returns the first (at most two) distinct urls in the order of their first
\* occurrence in the context, one link each, every label non-empty.
C8_FirstDistinctUrlsInOrder ==
    (fn = "links" /\ ret.done /\ FindAllUrls(arg.context, 1) # <<>>) =>
        LET want == Take(FirstSeen(FindAllUrls(arg.context, 1)), 2)
        IN /\ Len(ret.val) = Len(want)
           /\ \A k \in 1..Len(want) : ret.val[k].url = want[k] /\ ret.val[k].text # ""

\* C9: for a text whose collapsed, trimmed length exceeds 1200, _clean_text
\* returns the leading whole sentences (split on ". ") that fit, at most 1000
\* characters in all, or the fixed message when not even the first one fits.
C9_LongTextCutToThousand ==
    (fn = "clean" /\ ret.done /\ Len(CollapseSpaces(Strip(arg))) > 1200) =>
        LET sentences == Split(CollapseSpaces(Strip(arg)), ". ")
        IN \/ ret.val = UnableMessage /\ Len(sentences[1]) > 1000
           \/ /\ Len(ret.val) <= 1000
              /\ \E k \in 1..Len(sentences) :
                    ret.val = Strip(Join(Take(sentences, k), ". ") \o ". ")

(***************************************************************************)
(* Properties of the HTTP boundary                                         *)
(***************************************************************************)
\* the question member is missing, empty or all whitespace
BlankQuestion(body) ==
    /\ body.parses /\ body.object
    /\ \/ body.question = JAbsent
       \/ /\ body.question.json = "string"
          /\ \A i \in 1..Len(body.question.val) : IsSpace(Ch(body.question.val, i))

\* C2: a POST whose body is not valid JSON is answered with status 400 (an
\* input error), not with 500.
C2_MalformedJsonIs400 ==
    \A n \in 1..Len(viewLog) :
        (viewLog[n].method = "POST" /\ ~viewLog[n].body.parses) =>
            viewLog[n].response.status = 400

\* C3: a POST whose question is missing, empty or only whitespace is answered
\* with status 400, the fixed "please provide a question" answer and one
\* default forum link, and neither the context retriever nor the answer
\* generator is invoked for it.
C3_BlankQuestionShortCircuits ==
    \A n \in 1..Len(viewLog) :
        (viewLog[n].method = "POST" /\ BlankQuestion(viewLog[n].body)) =>
            /\ viewLog[n].response.status = 400
            /\ viewLog[n].response.answer = "Please provide a question for the TDS Virtual TA."
            /\ viewLog[n].response.links = <<[url |-> ForumHome, text |-> "TDS Course Forum"]>>
            /\ ~viewLog[n].retrieved
            /\ ~viewLog[n].generated

C3_Witness ==
    \E n \in 1..Len(viewLog) :
        /\ viewLog[n].method = "POST"
        /\ viewLog[n].body.question = JString(" \n\t")
        /\ viewLog[n].response.status = 400
        /\ ~viewLog[n].generated

=============================================================================
